---- MODULE Spec2Model ----
(***************************************************************************)
(* Model of main.py: the Steam -> Notion synchronisation script.           *)
(*                                                                         *)
(* Three specifications share the module:                                  *)
(*   Spec        the whole program (__main__), with every call through     *)
(*               send_request_with_retry unfolded attempt by attempt;      *)
(*   SpecRetry   one call of send_request_with_retry with any budget;      *)
(*   SpecFilter  one call of is_record on any game / achievement info.     *)
(*                                                                         *)
(* Conventions: numbers that the program keeps to one decimal              *)
(* (round(x, 1)) are integers counting tenths; Python values of several    *)
(* shapes (None, {}, a response, a parsed body) are records told apart by  *)
(* their kind field.                                                       *)
(***************************************************************************)
EXTENDS Integers, Sequences, FiniteSets, TLC

(***************************************************************************)
(* Bounds of the model.                                                    *)
(***************************************************************************)
MaxGames == 2      \* length of the owned-games list
MaxAch == 2        \* length of an achievements list
MaxBudget == 5     \* retry budgets tried in SpecRetry
MaxResults == 2    \* length of a Notion query's results list

(***************************************************************************)
(* Program constants.                                                      *)
(***************************************************************************)
MAX_RETRIES == 20
RETRY_DELAY == 2

\* time.mktime(time.strptime("2020-01-01 00:00:00")), local time taken as UTC
not_record_timestamp == 1577836800

None == [kind |-> "None"]
EmptyMap == [kind |-> "empty_mapping"]

\* PROPERTY_TYPES, keyed by the logical names of PROPERTY_MAPPING
PROPERTY_TYPES ==
    [TITLE |-> "title", PLAYTIME |-> "number", LAST_PLAYED |-> "date",
     STORE_URL |-> "url", COMPLETION |-> "multi_select",
     TOTAL_ACHIEVEMENTS |-> "number", ACHIEVED_ACHIEVEMENTS |-> "number",
     REVIEW |-> "rich_text", INFO |-> "rich_text", TAGS |-> "multi_select"]

NOTION_DATABASE_ID == "db"

(***************************************************************************)
(* Python built-ins used by the program, computed as Python computes them. *)
(***************************************************************************)

\* Minutes m = 6k+3 (an exact tie in tenths of an hour) for which the double
\* m/60 lies below the tie, so that round(m/60, 1) rounds down.
TieRoundsDown == {9, 15, 21, 51, 57, 351, 363}

\* round(float(m) / 60, 1), in tenths of an hour
RoundHours(m) ==
    IF m % 6 = 3 /\ m \in TieRoundsDown THEN m \div 6 ELSE (m + 3) \div 6

\* round(float(a) / float(t) * 100, 1), in tenths of a percent, for t > 0.
\* A tie needs 16 | t, so for shorter lists the result is the nearest tenth.
RoundPercent(a, t) == (2000 * a + t) \div (2 * t)

\* str() of a float that has one decimal, given in tenths: 500 -> "50.0"
FormatTenths(c) == ToString(c \div 10) \o "." \o ToString(c % 10)

Pad2(n) == IF n < 10 THEN "0" \o ToString(n) ELSE ToString(n)

\* time.strftime("%Y-%m-%d", time.localtime(ts)) with local time = UTC
FormatDate(ts) ==
    LET z == (ts \div 86400) + 719468
        era == z \div 146097
        doe == z - era * 146097
        yoe == (doe - doe \div 1460 + doe \div 36524 - doe \div 146096) \div 365
        doy == doe - (365 * yoe + yoe \div 4 - yoe \div 100)
        mp == (5 * doy + 2) \div 153
        d == doy - (153 * mp + 2) \div 5 + 1
        m == IF mp < 10 THEN mp + 3 ELSE mp - 9
        y == yoe + era * 400 + (IF m <= 2 THEN 1 ELSE 0)
    IN ToString(y) \o "-" \o Pad2(m) \o "-" \o Pad2(d)

\* game.get("rtime_last_played", 0)
GetLastPlayed(game) == IF game.has_rtime THEN game.rtime_last_played ELSE 0


(***************************************************************************)
(* Values exchanged with the outside world.                                *)
(***************************************************************************)
Sentinel == [total |-> -1, achieved |-> -1]

\* Bodies the Steam achievement endpoint can answer with (parsed JSON).
RECURSIVE SeqsUpTo(_, _)
SeqsUpTo(S, n) ==
    IF n = 0 THEN {<<>>}
    ELSE LET shorter == SeqsUpTo(S, n - 1)
         IN shorter \cup {Append(q, e) : q \in {r \in shorter : Len(r) = n - 1}, e \in S}

AchievementEntries == {[achieved |-> 0], [achieved |-> 1]}

AchBody(hp, hs, sv, ha, l) ==
    [kind |-> "json", has_playerstats |-> hp, has_success |-> hs, success |-> sv,
     has_achievements |-> ha, achievements |-> l]

AchievementBodies ==
    {AchBody(FALSE, FALSE, FALSE, FALSE, <<>>),
     AchBody(TRUE, FALSE, FALSE, FALSE, <<>>),
     AchBody(TRUE, TRUE, FALSE, FALSE, <<>>),
     AchBody(TRUE, TRUE, TRUE, FALSE, <<>>)}
    \cup {AchBody(TRUE, TRUE, TRUE, TRUE, l) : l \in SeqsUpTo(AchievementEntries, MaxAch)}

\* What a GET of the achievement endpoint can do.
AchievementOutcomes ==
    {[kind |-> "transport_error"], [kind |-> "http_error"], [kind |-> "bad_json"]}
    \cup {[kind |-> "ok", body |-> b] : b \in AchievementBodies}

Tag(d, h, n) == [is_dict |-> d, has_name |-> h, name |-> n]

StoreSet ==
    {[has_info |-> TRUE, info |-> "desc", has_tag |-> TRUE,
      tag |-> <<Tag(FALSE, FALSE, "Indie"), Tag(TRUE, TRUE, "RPG"), Tag(TRUE, FALSE, "")>>],
     [has_info |-> FALSE, info |-> "", has_tag |-> FALSE, tag |-> <<>>]}

ReviewSet == {"", "good"}

Game(a, n, p, h, r) ==
    [appid |-> a, name |-> n, playtime_forever |-> p, has_rtime |-> h,
     rtime_last_played |-> r, img_icon_url |-> "icon"]

\* Games of the owned-games list in Spec.
GameSet == {Game(10, "Half-Life", 600, TRUE, 1700000000), Game(20, "Idle", 2, FALSE, 0)}

NoGame == Game(0, "", 0, FALSE, 0)

PageIds == {"p" \o ToString(k) : k \in 1..MaxResults}

(***************************************************************************)
(* query_achievements_info_from_steam and get_achievements_count.          *)
(***************************************************************************)

\* The result of the call: the parsed body, None, or an exception that
\* leaves the function.  On a transport error requests.get raises before
\* `response` is bound, and the handler's hasattr(response, 'text') then
\* raises UnboundLocalError, which no clause of the try statement catches.
query_achievements_info_from_steam(outcome) ==
    CASE outcome.kind = "ok" -> outcome.body
      [] outcome.kind = "transport_error" -> [kind |-> "raised", exc |-> "UnboundLocalError"]
      [] outcome.kind = "http_error" -> None
      [] outcome.kind = "bad_json" -> None

RECURSIVE CountAchievements(_, _)
CountAchievements(achievements_array, info) ==
    IF achievements_array = <<>> THEN info
    ELSE LET achievement_dict == Head(achievements_array)
             counted == [info EXCEPT !.total = @ + 1]
         IN CountAchievements(Tail(achievements_array),
                IF achievement_dict.achieved # 0
                THEN [counted EXCEPT !.achieved = @ + 1]
                ELSE counted)

\* game_achievements is the body or None
get_achievements_count(game_achievements) ==
    IF game_achievements.kind = "None"
       \/ ~(game_achievements.has_playerstats /\ game_achievements.has_success
            /\ game_achievements.success)
    THEN [total |-> -1, achieved |-> -1]
    ELSE IF ~game_achievements.has_achievements
    THEN [total |-> -1, achieved |-> -1]
    ELSE CountAchievements(game_achievements.achievements, [total |-> 0, achieved |-> 0])

(***************************************************************************)
(* is_record.                                                              *)
(***************************************************************************)
is_record(g, info) ==
    LET playtime == RoundHours(g.playtime_forever)
    IN ~((playtime < 1 /\ info.total < 1)
         \/ (GetLastPlayed(g) < not_record_timestamp
             /\ info.total < 1
             /\ playtime < 60))

(***************************************************************************)
(* Property derivation of add_item_to_notion_database and                  *)
(* update_item_to_notion_database.                                         *)
(***************************************************************************)
Text(s) == <<[type |-> "text", text |-> [content |-> s]]>>

External(u) == [type |-> "external", external |-> [url |-> u]]

\* the tag loop: dict tags keep their name, nameless dicts are dropped,
\* anything else is wrapped as {"name": str(tag)}
RECURSIVE NormalizeTags(_)
NormalizeTags(tag) ==
    IF tag = <<>> THEN <<>>
    ELSE LET t == Head(tag)
         IN (IF t.is_dict
             THEN (IF t.has_name THEN <<[name |-> t.name]>> ELSE <<>>)
             ELSE <<[name |-> t.name]>>)
            \o NormalizeTags(Tail(tag))

StoreTags(store) == IF store.has_tag THEN store.tag ELSE <<>>

StoreInfo(store) == IF store.has_info THEN store.info ELSE ""

\* add_item_to_notion_database with `if completion > 0` for the option list
add_item_positive_completion(g, info, review, store) ==
    LET playtime == RoundHours(g.playtime_forever)
        last_played_time == FormatDate(GetLastPlayed(g))
        store_url == "https://store.steampowered.com/app/" \o ToString(g.appid)
        icon_url == "https://media.steampowered.com/steamcommunity/public/images/apps/"
                    \o ToString(g.appid) \o "/" \o g.img_icon_url \o ".jpg"
        cover_url == "https://steamcdn-a.akamaihd.net/steam/apps/"
                     \o ToString(g.appid) \o "/header.jpg"
        total_achievements == info.total
        achieved_achievements == info.achieved
        completion == IF total_achievements > 0
                      THEN RoundPercent(achieved_achievements, total_achievements)
                      ELSE -10
        completion_value == IF completion > 0
                            THEN <<[name |-> FormatTenths(completion) \o "%"]>>
                            ELSE <<>>
        properties ==
            [TITLE |-> [type |-> "title", title |-> Text(g.name)],
             PLAYTIME |-> [type |-> "number", number |-> playtime],
             LAST_PLAYED |-> [type |-> "date", date |-> [start |-> last_played_time]],
             STORE_URL |-> [type |-> "url", url |-> store_url],
             TOTAL_ACHIEVEMENTS |-> [type |-> "number", number |-> total_achievements],
             ACHIEVED_ACHIEVEMENTS |-> [type |-> "number", number |-> achieved_achievements],
             REVIEW |-> [type |-> "rich_text", rich_text |-> Text(review)],
             INFO |-> [type |-> "rich_text", rich_text |-> Text(StoreInfo(store))],
             COMPLETION |->
                 IF PROPERTY_TYPES.COMPLETION = "multi_select"
                 THEN [type |-> "multi_select", multi_select |-> completion_value]
                 ELSE [type |-> "number", number |-> completion],
             TAGS |->
                 IF PROPERTY_TYPES.TAGS = "checkbox"
                 THEN [type |-> "checkbox", checkbox |-> Len(StoreTags(store)) > 0]
                 ELSE [type |-> "multi_select", multi_select |-> NormalizeTags(StoreTags(store))]]
    IN [kind |-> "create",
        parent |-> [type |-> "database_id", database_id |-> NOTION_DATABASE_ID],
        properties |-> properties,
        cover |-> External(cover_url),
        icon |-> External(icon_url)]

\* json_data of add_item_to_notion_database
add_item_to_notion_database(g, info, review, store) ==
    LET playtime == RoundHours(g.playtime_forever)
        last_played_time == FormatDate(GetLastPlayed(g))
        store_url == "https://store.steampowered.com/app/" \o ToString(g.appid)
        icon_url == "https://media.steampowered.com/steamcommunity/public/images/apps/"
                    \o ToString(g.appid) \o "/" \o g.img_icon_url \o ".jpg"
        cover_url == "https://steamcdn-a.akamaihd.net/steam/apps/"
                     \o ToString(g.appid) \o "/header.jpg"
        total_achievements == info.total
        achieved_achievements == info.achieved
        completion == IF total_achievements > 0
                      THEN RoundPercent(achieved_achievements, total_achievements)
                      ELSE -10
        completion_value == IF completion >= 0
                            THEN <<[name |-> FormatTenths(completion) \o "%"]>>
                            ELSE <<>>
        properties ==
            [TITLE |-> [type |-> "title", title |-> Text(g.name)],
             PLAYTIME |-> [type |-> "number", number |-> playtime],
             LAST_PLAYED |-> [type |-> "date", date |-> [start |-> last_played_time]],
             STORE_URL |-> [type |-> "url", url |-> store_url],
             TOTAL_ACHIEVEMENTS |-> [type |-> "number", number |-> total_achievements],
             ACHIEVED_ACHIEVEMENTS |-> [type |-> "number", number |-> achieved_achievements],
             REVIEW |-> [type |-> "rich_text", rich_text |-> Text(review)],
             INFO |-> [type |-> "rich_text", rich_text |-> Text(StoreInfo(store))],
             COMPLETION |->
                 IF PROPERTY_TYPES.COMPLETION = "multi_select"
                 THEN [type |-> "multi_select", multi_select |-> completion_value]
                 ELSE [type |-> "number", number |-> completion],
             TAGS |->
                 IF PROPERTY_TYPES.TAGS = "checkbox"
                 THEN [type |-> "checkbox", checkbox |-> Len(StoreTags(store)) > 0]
                 ELSE [type |-> "multi_select", multi_select |-> NormalizeTags(StoreTags(store))]]
    IN [kind |-> "create",
        parent |-> [type |-> "database_id", database_id |-> NOTION_DATABASE_ID],
        properties |-> properties,
        cover |-> External(cover_url),
        icon |-> External(icon_url)]

\* update_item_to_notion_database with `if completion > 0` for the option list
update_item_positive_completion(g, info, review, store) ==
    LET playtime == RoundHours(g.playtime_forever)
        last_played_time == FormatDate(GetLastPlayed(g))
        store_url == "https://store.steampowered.com/app/" \o ToString(g.appid)
        icon_url == "https://media.steampowered.com/steamcommunity/public/images/apps/"
                    \o ToString(g.appid) \o "/" \o g.img_icon_url \o ".jpg"
        cover_url == "https://steamcdn-a.akamaihd.net/steam/apps/"
                     \o ToString(g.appid) \o "/header.jpg"
        total_achievements == info.total
        achieved_achievements == info.achieved
        completion == IF total_achievements > 0
                      THEN RoundPercent(achieved_achievements, total_achievements)
                      ELSE -10
        completion_value == IF completion > 0
                            THEN <<[name |-> FormatTenths(completion) \o "%"]>>
                            ELSE <<>>
        properties ==
            [TITLE |-> [type |-> "title", title |-> Text(g.name)],
             PLAYTIME |-> [type |-> "number", number |-> playtime],
             LAST_PLAYED |-> [type |-> "date", date |-> [start |-> last_played_time]],
             STORE_URL |-> [type |-> "url", url |-> store_url],
             TOTAL_ACHIEVEMENTS |-> [type |-> "number", number |-> total_achievements],
             ACHIEVED_ACHIEVEMENTS |-> [type |-> "number", number |-> achieved_achievements],
             REVIEW |-> [type |-> "rich_text", rich_text |-> Text(review)],
             INFO |-> [type |-> "rich_text", rich_text |-> Text(StoreInfo(store))],
             COMPLETION |->
                 IF PROPERTY_TYPES.COMPLETION = "multi_select"
                 THEN [type |-> "multi_select", multi_select |-> completion_value]
                 ELSE [type |-> "number", number |-> completion],
             TAGS |->
                 IF PROPERTY_TYPES.TAGS = "checkbox"
                 THEN [type |-> "checkbox", checkbox |-> Len(StoreTags(store)) > 0]
                 ELSE [type |-> "multi_select", multi_select |-> NormalizeTags(StoreTags(store))]]
    IN [kind |-> "update",
        properties |-> properties,
        cover |-> External(cover_url),
        icon |-> External(icon_url)]

\* json_data of update_item_to_notion_database
update_item_to_notion_database(g, info, review, store) ==
    LET playtime == RoundHours(g.playtime_forever)
        last_played_time == FormatDate(GetLastPlayed(g))
        store_url == "https://store.steampowered.com/app/" \o ToString(g.appid)
        icon_url == "https://media.steampowered.com/steamcommunity/public/images/apps/"
                    \o ToString(g.appid) \o "/" \o g.img_icon_url \o ".jpg"
        cover_url == "https://steamcdn-a.akamaihd.net/steam/apps/"
                     \o ToString(g.appid) \o "/header.jpg"
        total_achievements == info.total
        achieved_achievements == info.achieved
        completion == IF total_achievements > 0
                      THEN RoundPercent(achieved_achievements, total_achievements)
                      ELSE -10
        completion_value == IF completion >= 0
                            THEN <<[name |-> FormatTenths(completion) \o "%"]>>
                            ELSE <<>>
        properties ==
            [TITLE |-> [type |-> "title", title |-> Text(g.name)],
             PLAYTIME |-> [type |-> "number", number |-> playtime],
             LAST_PLAYED |-> [type |-> "date", date |-> [start |-> last_played_time]],
             STORE_URL |-> [type |-> "url", url |-> store_url],
             TOTAL_ACHIEVEMENTS |-> [type |-> "number", number |-> total_achievements],
             ACHIEVED_ACHIEVEMENTS |-> [type |-> "number", number |-> achieved_achievements],
             REVIEW |-> [type |-> "rich_text", rich_text |-> Text(review)],
             INFO |-> [type |-> "rich_text", rich_text |-> Text(StoreInfo(store))],
             COMPLETION |->
                 IF PROPERTY_TYPES.COMPLETION = "multi_select"
                 THEN [type |-> "multi_select", multi_select |-> completion_value]
                 ELSE [type |-> "number", number |-> completion],
             TAGS |->
                 IF PROPERTY_TYPES.TAGS = "checkbox"
                 THEN [type |-> "checkbox", checkbox |-> Len(StoreTags(store)) > 0]
                 ELSE [type |-> "multi_select", multi_select |-> NormalizeTags(StoreTags(store))]]
    IN [kind |-> "update",
        properties |-> properties,
        cover |-> External(cover_url),
        icon |-> External(icon_url)]

\* json_data of query_item_from_notion_database
QueryData(g) ==
    [kind |-> "query",
     filter |-> [property |-> "TITLE", title |-> [equals |-> g.name]]]

\* query_item_from_notion_database returning what the retry client returned
query_item_returns_empty_mapping(r, body) ==
    IF r.kind = "response"
    THEN (IF body.kind = "bad_json" THEN [kind |-> "json", has_results |-> TRUE, results |-> <<>>]
          ELSE body)
    ELSE [kind |-> "json", has_results |-> FALSE, results |-> <<>>]

\* What query_item_from_notion_database returns.  r is what
\* send_request_with_retry returned, body what response.json() gives.
query_item_from_notion_database(r, body) ==
    IF r.kind = "response"
    THEN (IF body.kind = "bad_json" THEN [kind |-> "json", has_results |-> TRUE, results |-> <<>>]
          ELSE body)
    ELSE [kind |-> "json", has_results |-> TRUE, results |-> <<>>]

\* Bodies the Notion query endpoint can answer with.
QueryBodies ==
    {[kind |-> "bad_json"], [kind |-> "json", has_results |-> FALSE, results |-> <<>>]}
    \cup {[kind |-> "json", has_results |-> TRUE, results |-> l] :
            l \in {q \in SeqsUpTo([id : PageIds], MaxResults) :
                     \A a, b \in 1..Len(q) : a < b => q[a].id # q[b].id}}

\* What get_owned_game_data_from_steam returns.
get_owned_game_data_from_steam(r, body) ==
    IF r.kind = "response"
    THEN (IF body.kind = "bad_json" THEN EmptyMap ELSE body)
    ELSE EmptyMap

\* Bodies the owned-games endpoint can answer with.
OwnedBodies ==
    {[kind |-> "bad_json"], EmptyMap,
     [kind |-> "json", has_response |-> FALSE, has_games |-> FALSE, games |-> <<>>],
     [kind |-> "json", has_response |-> TRUE, has_games |-> FALSE, games |-> <<>>]}
    \cup {[kind |-> "json", has_response |-> TRUE, has_games |-> TRUE, games |-> l] :
            l \in SeqsUpTo(GameSet, MaxGames)}

\* the test of line 462: True when the run goes on to the game loop
HasGames(data) ==
    ~(data.kind = "empty_mapping" \/ ~data.has_response \/ ~data.has_games)

(***************************************************************************)
(* State.                                                                  *)
(***************************************************************************)
VARIABLES
    \* send_request_with_retry: position, arguments, locals, return value
    rpc, method, retries, response, ret,
    \* send_request_with_retry: what it did (history)
    budget, attempts, fails, sleeps,
    \* __main__: position, configuration and locals
    pc, cfg, owned_game_data, i, game, achievements_info, review_text,
    steam_store_data, queryed_item, json_data, page_id, exit_code,
    \* __main__: what it did (history)
    validated, calls, ach_outcome, queries, creates, updates, query_failed,
    \* is_record called on its own: arguments and return value
    arg_game, arg_info, is_record_ret

retryVars == <<rpc, method, retries, response, ret, budget, attempts, fails, sleeps>>

gameVars == <<game, achievements_info, review_text, steam_store_data, queryed_item,
              json_data, page_id, ach_outcome, queries, creates, updates, query_failed>>

mainVars == <<pc, cfg, owned_game_data, i, exit_code, validated, calls, gameVars>>

filterVars == <<arg_game, arg_info, is_record_ret>>

vars == <<retryVars, mainVars, filterVars>>

Unset == [kind |-> "unset"]
NoExit == -1
Methods == {"patch", "post", "get"}

RetryIdle ==
    /\ rpc = "idle" /\ method = "" /\ retries = 0 /\ response = None /\ ret = None
    /\ budget = 0 /\ attempts = 0 /\ fails = 0 /\ sleeps = 0

GameUnset ==
    /\ game = NoGame /\ achievements_info = Unset /\ review_text = ""
    /\ steam_store_data = Unset /\ queryed_item = Unset /\ json_data = None
    /\ page_id = "" /\ ach_outcome = Unset
    /\ queries = 0 /\ creates = 0 /\ updates = 0 /\ query_failed = FALSE

MainIdle ==
    /\ pc = "off" /\ cfg = [enable_filter |-> FALSE, enable_item_update |-> FALSE]
    /\ owned_game_data = Unset /\ i = 0 /\ exit_code = NoExit
    /\ validated = FALSE /\ calls = {} /\ GameUnset

FilterIdle == arg_game = NoGame /\ arg_info = Unset /\ is_record_ret = Unset

(***************************************************************************)
(* send_request_with_retry, one action per attempt.                        *)
(***************************************************************************)

\* entry: the arguments are bound and response = None
StartRequest(m, n) ==
    /\ rpc' = "loop" /\ method' = m /\ retries' = n /\ response' = None /\ ret' = None
    /\ budget' = n /\ attempts' = 0 /\ fails' = 0 /\ sleeps' = 0

\* the frame is gone once the caller has the return value
EndRequest ==
    /\ rpc' = "idle" /\ method' = "" /\ retries' = 0 /\ response' = None /\ ret' = None
    /\ budget' = 0 /\ attempts' = 0 /\ fails' = 0 /\ sleeps' = 0

\* retries -= 2
RetriesAfterFailureTwice(r) == r - 2

\* retries -= 1
RetriesAfterFailure(r) == r - 1

\* the except clause with time.sleep ahead of the test of retries
OnRequestExceptionSleepFirst ==
    /\ retries' = RetriesAfterFailure(retries)
    /\ fails' = fails + 1
    /\ IF retries' > 0
       THEN /\ sleeps' = sleeps + 1
            /\ rpc' = "loop"
            /\ ret' = ret
       ELSE /\ sleeps' = sleeps + 1
            /\ rpc' = "ret"
            /\ ret' = EmptyMap

\* the except clause: count the failure down, then sleep or give up
OnRequestException ==
    /\ retries' = RetriesAfterFailure(retries)
    /\ fails' = fails + 1
    /\ IF retries' > 0
       THEN /\ sleeps' = sleeps + 1
            /\ rpc' = "loop"
            /\ ret' = ret
       ELSE /\ sleeps' = sleeps
            /\ rpc' = "ret"
            /\ ret' = EmptyMap

\* the request is answered with a status below 400
AttemptSucceeds ==
    /\ rpc = "loop" /\ retries > 0
    /\ attempts' = attempts + 1
    /\ response' = [kind |-> "response", ok |-> TRUE]
    /\ ret' = response'
    /\ rpc' = "ret"
    /\ UNCHANGED <<method, retries, budget, fails, sleeps>>

\* the request is answered with a 4xx or 5xx status: raise_for_status raises
AttemptHttpError ==
    /\ rpc = "loop" /\ retries > 0
    /\ attempts' = attempts + 1
    /\ response' = [kind |-> "response", ok |-> FALSE]
    /\ OnRequestException
    /\ UNCHANGED <<method, budget>>

\* requests.patch/post/get raises: response keeps its earlier value
AttemptTransportError ==
    /\ rpc = "loop" /\ retries > 0
    /\ attempts' = attempts + 1
    /\ response' = response
    /\ OnRequestException
    /\ UNCHANGED <<method, budget>>

send_request_with_retry ==
    /\ (AttemptSucceeds \/ AttemptHttpError \/ AttemptTransportError)
    /\ UNCHANGED <<mainVars, filterVars>>

(***************************************************************************)
(* __main__.                                                               *)
(***************************************************************************)

\* validate_database_structure and the test of line 456.  Every failure of
\* the schema fetch (transport, status, body) is caught and gives False;
\* mismatches found in a fetched schema only warn.
Validate(fetched) ==
    /\ pc = "validate"
    /\ calls' = calls \cup {"notion_schema"}
    /\ validated' = fetched
    /\ IF fetched
       THEN pc' = "fetch_owned" /\ exit_code' = exit_code
       ELSE pc' = "exit_validation" /\ exit_code' = 1
    /\ UNCHANGED <<cfg, owned_game_data, i, gameVars, retryVars, filterVars>>

\* get_owned_game_data_from_steam up to its request
OwnedCall ==
    /\ pc = "fetch_owned"
    /\ StartRequest("get", MAX_RETRIES)
    /\ calls' = calls \cup {"steam_owned"}
    /\ pc' = "owned_wait"
    /\ UNCHANGED <<cfg, owned_game_data, i, exit_code, validated, gameVars, filterVars>>

\* get_owned_game_data_from_steam from its request on
OwnedReturn(body) ==
    /\ pc = "owned_wait" /\ rpc = "ret"
    /\ ret.kind = "response" \/ body = [kind |-> "bad_json"]
    /\ owned_game_data' = get_owned_game_data_from_steam(ret, body)
    /\ EndRequest
    /\ pc' = "check_owned"
    /\ UNCHANGED <<cfg, i, exit_code, validated, calls, gameVars, filterVars>>

\* lines 462-464
CheckOwned ==
    /\ pc = "check_owned"
    /\ IF HasGames(owned_game_data)
       THEN pc' = "loop" /\ i' = 1 /\ exit_code' = exit_code
       ELSE pc' = "exit_no_data" /\ i' = i /\ exit_code' = 1
    /\ UNCHANGED <<cfg, owned_game_data, validated, calls, gameVars, retryVars, filterVars>>

\* the for statement: the next game, or the end of the script
ForGame ==
    /\ pc = "loop"
    /\ IF i <= Len(owned_game_data.games)
       THEN /\ game' = owned_game_data.games[i]
            /\ pc' = "achievements"
            /\ exit_code' = exit_code
       ELSE /\ game' = game
            /\ pc' = "done"
            /\ exit_code' = 0
    /\ UNCHANGED <<cfg, owned_game_data, i, validated, calls, achievements_info,
                   review_text, steam_store_data, queryed_item, json_data, page_id,
                   ach_outcome, queries, creates, updates, query_failed,
                   retryVars, filterVars>>

\* line 467: get_achievements_count(game)
GetAchievements(outcome) ==
    /\ pc = "achievements"
    /\ calls' = calls \cup {"steam_game"}
    /\ ach_outcome' = outcome
    /\ LET game_achievements == query_achievements_info_from_steam(outcome)
       IN IF game_achievements.kind = "raised"
          THEN /\ achievements_info' = achievements_info
               /\ pc' = "crashed"
               /\ exit_code' = 1
          ELSE /\ achievements_info' = get_achievements_count(game_achievements)
               /\ pc' = "collaborators"
               /\ exit_code' = exit_code
    /\ UNCHANGED <<cfg, owned_game_data, i, validated, game, review_text,
                   steam_store_data, queryed_item, json_data, page_id,
                   queries, creates, updates, query_failed, retryVars, filterVars>>

\* lines 468-474: the two collaborators, and the default of rtime_last_played
Collaborators(review, store) ==
    /\ pc = "collaborators"
    /\ review_text' = review
    /\ steam_store_data' = store
    /\ game' = IF game.has_rtime THEN game
               ELSE [game EXCEPT !.has_rtime = TRUE, !.rtime_last_played = 0]
    /\ ach_outcome' = Unset
    /\ pc' = "filter"
    /\ UNCHANGED <<cfg, owned_game_data, i, exit_code, validated, calls,
                   achievements_info, queryed_item, json_data, page_id,
                   queries, creates, updates, query_failed, retryVars, filterVars>>

\* lines 476-477
Filter ==
    /\ pc = "filter"
    /\ pc' = IF cfg.enable_filter /\ ~is_record(game, achievements_info)
             THEN "next" ELSE "query"
    /\ UNCHANGED <<cfg, owned_game_data, i, exit_code, validated, calls, gameVars,
                   retryVars, filterVars>>

\* query_item_from_notion_database up to its request
QueryCall ==
    /\ pc = "query"
    /\ json_data' = QueryData(game)
    /\ StartRequest("post", MAX_RETRIES)
    /\ queries' = queries + 1
    /\ calls' = calls \cup {"notion_page"}
    /\ pc' = "query_wait"
    /\ UNCHANGED <<cfg, owned_game_data, i, exit_code, validated, game,
                   achievements_info, review_text, steam_store_data, queryed_item,
                   page_id, ach_outcome, creates, updates, query_failed, filterVars>>

\* query_item_from_notion_database from its request on
QueryReturn(body) ==
    /\ pc = "query_wait" /\ rpc = "ret"
    /\ ret.kind = "response" \/ body = [kind |-> "bad_json"]
    /\ queryed_item' = query_item_from_notion_database(ret, body)
    /\ query_failed' = (ret.kind # "response")
    /\ EndRequest
    /\ pc' = "reconcile"
    /\ UNCHANGED <<cfg, owned_game_data, i, exit_code, validated, calls, game,
                   achievements_info, review_text, steam_store_data, json_data,
                   page_id, ach_outcome, queries, creates, updates, filterVars>>

\* lines 480-482
SkipFailedQuery ==
    /\ pc = "reconcile"
    /\ ~queryed_item.has_results
    /\ pc' = "next"
    /\ UNCHANGED <<cfg, owned_game_data, i, exit_code, validated, calls, gameVars,
                   retryVars, filterVars>>

\* lines 484-489: update_item_to_notion_database up to its request
UpdateCall ==
    /\ pc = "reconcile"
    /\ queryed_item.has_results /\ queryed_item.results # <<>>
    /\ cfg.enable_item_update
    /\ page_id' = queryed_item.results[1].id
    /\ json_data' = update_item_to_notion_database(game, achievements_info,
                                                   review_text, steam_store_data)
    /\ StartRequest("patch", MAX_RETRIES)
    /\ updates' = updates + 1
    /\ pc' = "update_wait"
    /\ UNCHANGED <<cfg, owned_game_data, i, exit_code, validated, calls, game,
                   achievements_info, review_text, steam_store_data, queryed_item,
                   ach_outcome, queries, creates, query_failed, filterVars>>

\* lines 490-491
SkipExisting ==
    /\ pc = "reconcile"
    /\ queryed_item.has_results /\ queryed_item.results # <<>>
    /\ ~cfg.enable_item_update
    /\ pc' = "next"
    /\ UNCHANGED <<cfg, owned_game_data, i, exit_code, validated, calls, gameVars,
                   retryVars, filterVars>>

\* lines 492-494 taken whenever the query has a results list
AddCallUnconditional ==
    /\ pc = "reconcile"
    /\ queryed_item.has_results
    /\ json_data' = add_item_to_notion_database(game, achievements_info,
                                                review_text, steam_store_data)
    /\ StartRequest("post", MAX_RETRIES)
    /\ creates' = creates + 1
    /\ pc' = "add_wait"
    /\ UNCHANGED <<cfg, owned_game_data, i, exit_code, validated, calls, game,
                   achievements_info, review_text, steam_store_data, queryed_item,
                   page_id, ach_outcome, queries, updates, query_failed, filterVars>>

\* lines 492-494: add_item_to_notion_database up to its request
AddCall ==
    /\ pc = "reconcile"
    /\ queryed_item.has_results /\ queryed_item.results = <<>>
    /\ json_data' = add_item_to_notion_database(game, achievements_info,
                                                review_text, steam_store_data)
    /\ StartRequest("post", MAX_RETRIES)
    /\ creates' = creates + 1
    /\ pc' = "add_wait"
    /\ UNCHANGED <<cfg, owned_game_data, i, exit_code, validated, calls, game,
                   achievements_info, review_text, steam_store_data, queryed_item,
                   page_id, ach_outcome, queries, updates, query_failed, filterVars>>

\* add_item_to_notion_database / update_item_to_notion_database from the
\* request on: the driver drops what they return
WriteReturn ==
    /\ pc \in {"add_wait", "update_wait"} /\ rpc = "ret"
    /\ EndRequest
    /\ pc' = "next"
    /\ UNCHANGED <<cfg, owned_game_data, i, exit_code, validated, calls, gameVars,
                   filterVars>>

\* the end of the loop body: the locals are rebound in the next iteration
NextIteration ==
    /\ pc = "next"
    /\ i' = i + 1
    /\ pc' = "loop"
    /\ game' = NoGame /\ achievements_info' = Unset /\ review_text' = ""
    /\ steam_store_data' = Unset /\ queryed_item' = Unset /\ json_data' = None
    /\ page_id' = "" /\ ach_outcome' = Unset
    /\ queries' = 0 /\ creates' = 0 /\ updates' = 0 /\ query_failed' = FALSE
    /\ UNCHANGED <<cfg, owned_game_data, exit_code, validated, calls, retryVars, filterVars>>

Init ==
    /\ pc = "validate"
    /\ cfg \in [enable_filter : BOOLEAN, enable_item_update : BOOLEAN]
    /\ owned_game_data = Unset /\ i = 0 /\ exit_code = NoExit
    /\ validated = FALSE /\ calls = {}
    /\ GameUnset /\ RetryIdle /\ FilterIdle

Next ==
    \/ \E fetched \in BOOLEAN : Validate(fetched)
    \/ OwnedCall
    \/ \E body \in OwnedBodies : OwnedReturn(body)
    \/ CheckOwned
    \/ ForGame
    \/ \E outcome \in AchievementOutcomes : GetAchievements(outcome)
    \/ \E review \in ReviewSet, store \in StoreSet : Collaborators(review, store)
    \/ Filter
    \/ QueryCall
    \/ \E body \in QueryBodies : QueryReturn(body)
    \/ SkipFailedQuery
    \/ UpdateCall
    \/ SkipExisting
    \/ AddCall
    \/ WriteReturn
    \/ NextIteration
    \/ send_request_with_retry

Spec == Init /\ [][Next]_vars

(***************************************************************************)
(* send_request_with_retry on its own, with any budget and method.         *)
(***************************************************************************)
InitRetry ==
    /\ rpc = "loop" /\ method \in Methods
    /\ retries \in (1..MaxBudget) \cup {MAX_RETRIES} /\ budget = retries
    /\ response = None /\ ret = None
    /\ attempts = 0 /\ fails = 0 /\ sleeps = 0
    /\ MainIdle /\ FilterIdle

NextRetry == send_request_with_retry

SpecRetry == InitRetry /\ [][NextRetry]_vars

(***************************************************************************)
(* is_record on its own.                                                   *)
(***************************************************************************)
PlaytimeValues == {0, 2, 3, 5, 6, 9, 354, 357, 360, 600}

LastPlayedValues == {0, not_record_timestamp - 1, not_record_timestamp, 1700000000}

FilterGames ==
    {Game(10, "Half-Life", p, TRUE, r) : p \in PlaytimeValues, r \in LastPlayedValues}
    \cup {Game(10, "Half-Life", p, FALSE, 0) : p \in PlaytimeValues}

FilterInfos ==
    {get_achievements_count(b) : b \in AchievementBodies}

InitFilter ==
    /\ arg_game \in FilterGames
    /\ arg_info \in FilterInfos
    /\ is_record_ret = Unset
    /\ MainIdle /\ RetryIdle

CallIsRecord ==
    /\ is_record_ret = Unset
    /\ is_record_ret' = [kind |-> "bool", value |-> is_record(arg_game, arg_info)]
    /\ UNCHANGED <<arg_game, arg_info, mainVars, retryVars>>

NextFilter == CallIsRecord

SpecFilter == InitFilter /\ [][NextFilter]_vars

(***************************************************************************)
(* Properties.                                                             *)
(***************************************************************************)
Terminated == pc \in {"exit_validation", "exit_no_data", "done", "crashed"}

Abs(n) == IF n < 0 THEN -n ELSE n

\* C1: when every attempt of a call with budget N >= 1 has failed and the
\* call has returned, it has made exactly N attempts and returned {}; it
\* never makes more than N attempts.
C1_ExhaustedBudget ==
    /\ attempts <= budget
    /\ (rpc = "ret" /\ fails = attempts) => (attempts = budget /\ ret = EmptyMap)

C1_Witness ==
    rpc = "ret" /\ fails = attempts /\ budget = MAX_RETRIES /\ ret = EmptyMap

\* C2: is_record returns False exactly when (playtime < 0.1 h and total < 1)
\* or (last played before the cutoff and total < 1 and playtime < 6 h),
\* playtime being playtime_forever minutes expressed in hours.
C2_IsRecordByHours ==
    is_record_ret # Unset =>
        (is_record_ret.value = FALSE <=>
            \/ (arg_game.playtime_forever * 10 < 60 /\ arg_info.total < 1)
            \/ (GetLastPlayed(arg_game) < not_record_timestamp
                /\ arg_info.total < 1
                /\ arg_game.playtime_forever < 6 * 60))

\* C3: a game past the filter gets exactly one query and then at most one
\* write: create (never update) on an empty results list, update of the
\* first result's id (never create) on a non-empty list with updates
\* enabled, no write on a non-empty list with updates disabled.
C3_OneQueryOneWrite ==
    /\ queries <= 1
    /\ creates + updates <= queries
    /\ pc \in {"query_wait", "reconcile", "add_wait", "update_wait"} => queries = 1
    /\ (pc = "next" /\ queries = 1) =>
          IF queryed_item.has_results /\ queryed_item.results = <<>>
          THEN creates = 1 /\ updates = 0
          ELSE IF queryed_item.has_results /\ cfg.enable_item_update
          THEN updates = 1 /\ creates = 0 /\ page_id = queryed_item.results[1].id
          ELSE creates = 0 /\ updates = 0

C3_Witness ==
    /\ pc = "next" /\ updates = 1 /\ creates = 0 /\ queries = 1
    /\ Len(queryed_item.results) = 2 /\ page_id = queryed_item.results[1].id

\* C4: no exception leaves the processing of a game, and a run that got the
\* owned-games list ends only after the loop has reached every game.
C4_EveryGameReached ==
    /\ pc # "crashed"
    /\ pc \in {"done", "crashed"} => i = Len(owned_game_data.games) + 1

\* what get_achievements_count is said to return for an outcome of the call
ExpectedAchievements(outcome) ==
    IF outcome.kind # "ok" THEN Sentinel
    ELSE LET b == outcome.body
         IN IF ~(b.has_playerstats /\ b.has_success /\ b.success) THEN Sentinel
            ELSE IF ~b.has_achievements THEN Sentinel
            ELSE [total |-> Len(b.achievements),
                  achieved |-> Cardinality({k \in 1..Len(b.achievements) :
                                               b.achievements[k].achieved # 0})]

\* C5: get_achievements_count always returns an AchievementInfo: the
\* sentinel when the call fails or success is false or absent, the sentinel
\* when there is no achievements list, the counts otherwise.
C5_ThreeOutcomes ==
    ach_outcome # Unset =>
        /\ achievements_info = ExpectedAchievements(ach_outcome)
        /\ (achievements_info # Sentinel =>
              0 <= achievements_info.achieved
              /\ achievements_info.achieved <= achievements_info.total)

\* C6: when the title query has failed on every attempt, the query function
\* returns {results: []} and the driver goes on to one create call.
C6_FailedQueryCreates ==
    query_failed =>
        /\ queryed_item = [kind |-> "json", has_results |-> TRUE, results |-> <<>>]
        /\ pc \in {"reconcile", "add_wait", "next"}
        /\ pc \in {"add_wait", "next"} => (creates = 1 /\ updates = 0)

C6_Witness ==
    query_failed /\ pc = "next" /\ creates = 1 /\ json_data.kind = "create"

\* C7: in the payload of a create and of an update the COMPLETION property
\* is a multi-select that is empty when total <= 0 and otherwise holds the
\* one option "<c>%", c being achieved/total*100 to the nearest tenth.
C7_Completion ==
    pc \in {"add_wait", "update_wait"} =>
        LET t == achievements_info.total
            a == achievements_info.achieved
            p == json_data.properties.COMPLETION
        IN /\ p.type = "multi_select"
           /\ IF t <= 0
              THEN p.multi_select = <<>>
              ELSE \E c \in {(1000 * a) \div t, (1000 * a) \div t + 1} :
                      /\ 2 * Abs(c * t - 1000 * a) <= t
                      /\ p.multi_select = <<[name |-> FormatTenths(c) \o "%"]>>

C7_Witness ==
    /\ pc = "add_wait"
    /\ achievements_info = [total |-> 2, achieved |-> 1]
    /\ json_data.properties.COMPLETION.multi_select = <<[name |-> "50.0%"]>>

\* C8: the properties, cover and icon an update sends are those a create
\* sends for the same game, achievement info, review and store data; the
\* create payload has the parent in addition and nothing else.
C8_SameDerivation ==
    pc = "update_wait" =>
        LET c == add_item_to_notion_database(game, achievements_info,
                                             review_text, steam_store_data)
        IN /\ json_data.properties = c.properties
           /\ json_data.cover = c.cover
           /\ json_data.icon = c.icon
           /\ DOMAIN c = DOMAIN json_data \cup {"parent"}

C8_Witness ==
    /\ pc = "update_wait"
    /\ achievements_info.total > 0
    /\ steam_store_data.has_tag
    /\ json_data.properties.TAGS.multi_select = <<[name |-> "Indie"], [name |-> "RPG"]>>

\* C9: exit code 1 with no Steam call and no Notion page call when the
\* validation fails; exit code 1 with no per-game call when the owned-games
\* fetch gives no data; exit code 0 at the end of every other run.
C9_ExitCodes ==
    Terminated =>
        IF ~validated
        THEN exit_code = 1 /\ calls \subseteq {"notion_schema"}
        ELSE IF ~HasGames(owned_game_data)
        THEN exit_code = 1 /\ calls \cap {"steam_game", "notion_page"} = {}
        ELSE exit_code = 0

\* C10: a call whose first success is at attempt k returns that attempt's
\* response after exactly k attempts (the k - 1 before it have failed); every failed attempt that is followed
\* by another attempt has slept once, the last failed attempt of the budget
\* has not, so a call sleeps at most budget - 1 times.
C10_FirstSuccess ==
    /\ sleeps <= budget - 1 \/ rpc = "idle"
    /\ rpc = "loop" => sleeps = fails
    /\ (rpc = "ret" /\ ret.kind = "response") =>
          /\ ret = response /\ ret.ok
          /\ fails = attempts - 1
          /\ sleeps = fails
    /\ (rpc = "ret" /\ ret.kind # "response") => sleeps = fails - 1

C10_Witness ==
    /\ rpc = "ret" /\ ret.kind = "response" /\ attempts = 3
    /\ sleeps = 2 /\ budget > 3
====
